---- MODULE Spec2Model ----
(***************************************************************************)
(* Verification model of the F1-NEXUS simulation orchestrators.            *)
(*                                                                         *)
(* The repository holds several implementations side by side:              *)
(*   - the lap-based store   (f1-predictor-full/stores/simulationStore.ts) *)
(*     driving the lap engine simulateRace (data/driverPerks.ts);          *)
(*   - the Monte Carlo store (unnamed/part_014) driving a Web Worker;      *)
(*   - the perk store        (unnamed/part_011) with startRun/endRun;      *)
(*   - the worker engine's progress loop (IMPLEMENTATION_B_GUIDE.md);      *)
(*   - the prediction engine runPrediction (lib/prediction.ts) fed by the  *)
(*     Monte Carlo store's factor application;                             *)
(*   - the legacy worker (public/worker.js);                               *)
(*   - the ordering of summary.results;                                    *)
(*   - the qualifying factors of the Monte Carlo store;                    *)
(*   - the normal generators of the engines, with OptimizedRandom          *)
(*     (unnamed/part_022);                                                 *)
(*   - the CSV driver ingest parseDriversFromCSV (unnamed/part_020);       *)
(*   - F1SimulationManager (lib/prediction.ts);                            *)
(*   - the news route GET (unnamed/part_012).                              *)
(* Each is modelled as its own specification over its own variables.       *)
(***************************************************************************)
EXTENDS Integers, Sequences, FiniteSets, TLC

NULL == "null"

Min(a, b) == IF a < b THEN a ELSE b
Max(a, b) == IF a > b THEN a ELSE b

(***************************************************************************)
(* Bounds of the model (not program constants).                            *)
(***************************************************************************)
MaxLapRuns == 2      \* lap-store runs started per behaviour
MaxLapsInput == 6    \* largest lap count a configuration update may ask for

(***************************************************************************)
(* Lap-based store: stores/simulationStore.ts                              *)
(***************************************************************************)
HISTORY_LIMIT == 10

MIN_LAPS == 5

\* defaultRaceConfiguration.laps
DEFAULT_LAPS == 71

LapDrivers == {"max-verstappen", "lewis-hamilton"}

MsgRunning == "Simulação em andamento..."
MsgStarted == "Simulação iniciada..."
MsgCancelling == "Cancelando simulação..."
MsgCancelled == "Simulação cancelada."
MsgCancelledByUser == "Simulação cancelada pelo utilizador."
MsgCompleted == "Simulação concluída."
MsgCompletedOk == "Simulação concluída com sucesso."
MsgFailed == "Falha na simulação."
MsgNoDriver == "Selecione pelo menos um piloto para iniciar a corrida."
ErrNoDriver == "Nenhum piloto selecionado."
ErrEngine == "engine error"
MsgLap == "Volta concluída."
MsgCustom == "custom"

VARIABLES
  configuration,    \* lap store: configuration.laps
  lineup,           \* lap store: ids of the selected drivers
  currentRun,       \* lap store: SimulationRun | null
  history,          \* lap store: SimulationRun[]
  isRunning,        \* lap store
  statusMessage,    \* lap store
  runError,         \* lap store
  abortController,  \* lap store: null, or the controller with its aborted flag
  engine,           \* the suspended simulateRace call awaited by runSimulation
  clock             \* Date.now() as read by the last runSimulation

lapVars == <<configuration, lineup, currentRun, history, isRunning,
             statusMessage, runError, abortController, engine, clock>>

TerminalStatus == {"completed", "cancelled", "failed"}

EngineIdle == [pc |-> "idle", runId |-> 0, lap |-> 0, laps |-> 0]

\* currentRun: null
NoRun == [id |-> 0, status |-> "null", laps |-> 0, result |-> NULL, message |-> NULL]

\* AbortController: absent, present with signal.aborted false, or aborted
NoController == "null"
LiveController == "live"
AbortedController == "aborted"

\* last HISTORY_LIMIT entries of s: [...].slice(-HISTORY_LIMIT)
SliceLast(s, n) ==
  IF Len(s) <= n THEN s ELSE SubSeq(s, Len(s) - n + 1, Len(s))

\* History left in persisted storage by earlier sessions: h terminal runs.
PersistedStatus(i) ==
  IF i % 3 = 0 THEN "completed" ELSE IF i % 3 = 1 THEN "cancelled" ELSE "failed"

PersistedRun(i) ==
  [id |-> i, status |-> PersistedStatus(i), laps |-> IF PersistedStatus(i) = "failed" THEN 0 ELSE 1,
   result |-> IF PersistedStatus(i) = "completed" THEN "result" ELSE NULL,
   message |-> IF PersistedStatus(i) = "completed" THEN MsgCompletedOk
               ELSE IF PersistedStatus(i) = "cancelled" THEN MsgCancelledByUser
               ELSE ErrEngine]

PersistedHistory(h) == [i \in 1..h |-> PersistedRun(i)]

\* lengths of the persisted history a session starts from: empty, one short
\* of the limit, and full
PersistedLengths == {0, HISTORY_LIMIT - 1, HISTORY_LIMIT}

\* the store as constructed over an empty storage
LapFresh ==
  /\ configuration = [laps |-> DEFAULT_LAPS]
  /\ lineup = {}
  /\ currentRun = NoRun
  /\ history = <<>>
  /\ isRunning = FALSE
  /\ statusMessage = NULL
  /\ runError = NULL
  /\ abortController = NoController
  /\ engine = EngineIdle
  /\ clock = HISTORY_LIMIT

\* the run a session had in flight when its page was closed: partialize
\* writes every field but abortController on each set
InterruptedRun ==
  [id |-> HISTORY_LIMIT, status |-> "running", laps |-> 0, result |-> NULL,
   message |-> MsgRunning]

\* the store as rehydrated by persist from the storage an earlier session
\* left: its configuration (laps set to the shortest race), h terminal runs
\* and, when that session ended in the middle of a run, the fields of that
\* run; abortController is not persisted and starts as null
LapInit ==
  /\ configuration = [laps |-> MIN_LAPS]
  /\ lineup = {}
  /\ \E h \in PersistedLengths : history = PersistedHistory(h)
  /\ \E interrupted \in BOOLEAN :
       IF interrupted
         THEN /\ currentRun = InterruptedRun
              /\ isRunning = TRUE
              /\ statusMessage = MsgStarted
         ELSE /\ currentRun = NoRun
              /\ isRunning = FALSE
              /\ statusMessage = NULL
  /\ runError = NULL
  /\ abortController = NoController
  /\ engine = EngineIdle
  /\ clock = HISTORY_LIMIT

\* sanitizeConfiguration, laps field: Math.max(5, Math.round(update.laps))
sanitizeConfiguration(current, laps) == [current EXCEPT !.laps = Max(MIN_LAPS, laps)]

updateConfiguration(laps) ==
  /\ configuration' = sanitizeConfiguration(configuration, laps)
  /\ UNCHANGED <<lineup, currentRun, history, isRunning, statusMessage,
                 runError, abortController, engine, clock>>

toggleDriver(d) ==
  /\ lineup' = IF d \in lineup THEN lineup \ {d} ELSE lineup \cup {d}
  /\ UNCHANGED <<configuration, currentRun, history, isRunning, statusMessage,
                 runError, abortController, engine, clock>>

resetLineup ==
  /\ lineup' = {}
  /\ UNCHANGED <<configuration, currentRun, history, isRunning, statusMessage,
                 runError, abortController, engine, clock>>

resetHistory ==
  /\ history' = <<>>
  /\ UNCHANGED <<configuration, lineup, currentRun, isRunning, statusMessage,
                 runError, abortController, engine, clock>>

clearCurrentRun ==
  /\ currentRun' = NoRun
  /\ UNCHANGED <<configuration, lineup, history, isRunning, statusMessage,
                 runError, abortController, engine, clock>>

setStatusMessage(m) ==
  /\ statusMessage' = m
  /\ UNCHANGED <<configuration, lineup, currentRun, history, isRunning,
                 runError, abortController, engine, clock>>

\* buildSimulationDrivers: the lineup entries that have a profile
buildSimulationDrivers(l) == l \cap LapDrivers

cancelSimulation ==
  /\ IF abortController = NoController
       THEN UNCHANGED lapVars
       ELSE /\ statusMessage' = MsgCancelling
            /\ abortController' = AbortedController
            /\ UNCHANGED <<configuration, lineup, currentRun, history, isRunning,
                           runError, engine, clock>>

\* onLapComplete: the lap is recorded on the run it belongs to
onLapComplete(run, runId) ==
  IF run = NoRun \/ run.id # runId THEN run
  ELSE [run EXCEPT !.laps = @ + 1, !.message = MsgLap]

IsCurrent(run, runId) == run # NoRun /\ run.id = runId

\* completeRun, had it marked the run completed without storing output.result
completeRunDropsResult(run, runId) ==
  IF ~(run # NoRun /\ run.id = runId)
    THEN /\ abortController' = NoController
         /\ isRunning' = FALSE
         /\ statusMessage' = MsgCompleted
         /\ currentRun' = run
         /\ UNCHANGED <<history, runError>>
    ELSE LET finishedRun == [run EXCEPT !.status = "completed",
                                        !.message = MsgCompletedOk, !.laps = engine.laps]
         IN /\ currentRun' = finishedRun
            /\ history' = SliceLast(Append(history, finishedRun), HISTORY_LIMIT)
            /\ isRunning' = FALSE
            /\ statusMessage' = MsgCompleted
            /\ abortController' = NoController
            /\ UNCHANGED runError

\* the set(...) after simulateRace resolved
completeRun(run, runId) ==
  IF ~IsCurrent(run, runId)
    THEN /\ abortController' = NoController
         /\ isRunning' = FALSE
         /\ statusMessage' = MsgCompleted
         /\ currentRun' = run
         /\ UNCHANGED <<history, runError>>
    ELSE LET finishedRun == [run EXCEPT !.status = "completed", !.result = "result",
                                        !.message = MsgCompletedOk, !.laps = engine.laps]
         IN /\ currentRun' = finishedRun
            /\ history' = SliceLast(Append(history, finishedRun), HISTORY_LIMIT)
            /\ isRunning' = FALSE
            /\ statusMessage' = MsgCompleted
            /\ abortController' = NoController
            /\ UNCHANGED runError

\* the catch branch for "Simulation cancelled"
cancelRun(run, runId) ==
  IF ~IsCurrent(run, runId)
    THEN /\ abortController' = NoController
         /\ isRunning' = FALSE
         /\ statusMessage' = MsgCancelled
         /\ currentRun' = run
         /\ UNCHANGED <<history, runError>>
    ELSE LET cancelledRun == [run EXCEPT !.status = "cancelled", !.message = MsgCancelledByUser]
         IN /\ currentRun' = cancelledRun
            /\ history' = SliceLast(Append(history, cancelledRun), HISTORY_LIMIT)
            /\ isRunning' = FALSE
            /\ statusMessage' = MsgCancelled
            /\ abortController' = NoController
            /\ UNCHANGED runError

\* the catch branch for any other error
failRun(run, runId, message) ==
  LET failedRun == IF IsCurrent(run, runId)
                     THEN [run EXCEPT !.status = "failed", !.message = message]
                     ELSE NoRun
  IN /\ currentRun' = failedRun
     /\ history' = IF failedRun # NoRun
                     THEN SliceLast(Append(history, failedRun), HISTORY_LIMIT)
                     ELSE history
     /\ isRunning' = FALSE
     /\ statusMessage' = MsgFailed
     /\ runError' = message
     /\ abortController' = NoController

\* runSimulation up to its first suspension: the guard on isRunning, the
\* empty-lineup message, the running record, and simulateRace entered.  With
\* `ok` the call runs up to the await of lap 1 (the fresh signal is not
\* aborted); otherwise simulateRace rejects before its first lap (a stale
\* persisted profile) and the generic catch branch runs in the same turn.
runSimulation(ok) ==
  /\ clock < HISTORY_LIMIT + MaxLapRuns
  /\ IF isRunning
       THEN UNCHANGED lapVars
       ELSE IF buildSimulationDrivers(lineup) = {}
         THEN /\ statusMessage' = MsgNoDriver
              /\ runError' = ErrNoDriver
              /\ UNCHANGED <<configuration, lineup, currentRun, history, isRunning,
                             abortController, engine, clock>>
         ELSE LET run == [id |-> clock + 1, status |-> "running", laps |-> 0,
                          result |-> NULL, message |-> MsgRunning]
              IN /\ clock' = clock + 1
                 /\ IF ok
                      THEN /\ currentRun' = run
                           /\ isRunning' = TRUE
                           /\ statusMessage' = MsgStarted
                           /\ runError' = NULL
                           /\ abortController' = LiveController
                           /\ engine' = [pc |-> "yield", runId |-> clock + 1, lap |-> 1,
                                         laps |-> configuration.laps]
                           /\ UNCHANGED history
                      ELSE /\ failRun(run, clock + 1, ErrEngine)
                           /\ UNCHANGED engine
                 /\ UNCHANGED <<configuration, lineup>>

\* EngineLap, had simulateRace looked at the signal only once the last lap is done
EngineLapChecksAbortLast ==
  /\ engine.pc = "yield"
  /\ LET recorded == onLapComplete(currentRun, engine.runId)
     IN IF engine.lap = engine.laps
          THEN /\ IF abortController = AbortedController
                    THEN cancelRun(recorded, engine.runId)
                    ELSE completeRun(recorded, engine.runId)
               /\ engine' = EngineIdle
          ELSE /\ currentRun' = recorded
               /\ statusMessage' = IF IsCurrent(currentRun, engine.runId)
                                     THEN MsgLap ELSE statusMessage
               /\ engine' = [engine EXCEPT !.lap = @ + 1]
               /\ UNCHANGED <<history, isRunning, runError, abortController>>
  /\ UNCHANGED <<configuration, lineup, clock>>

\* One turn of the event loop for simulateRace: the timer of the await
\* fires, the lap is simulated and reported, the signal is checked, and the
\* call either suspends at the next lap, throws, or returns; the
\* continuation of runSimulation runs in the same turn.
EngineLap ==
  /\ engine.pc = "yield"
  /\ LET recorded == onLapComplete(currentRun, engine.runId)
     IN IF abortController = AbortedController
          THEN /\ cancelRun(recorded, engine.runId)
               /\ engine' = EngineIdle
          ELSE IF engine.lap = engine.laps
            THEN /\ completeRun(recorded, engine.runId)
                 /\ engine' = EngineIdle
            ELSE /\ currentRun' = recorded
                 /\ statusMessage' = IF IsCurrent(currentRun, engine.runId)
                                       THEN MsgLap ELSE statusMessage
                 /\ engine' = [engine EXCEPT !.lap = @ + 1]
                 /\ UNCHANGED <<history, isRunning, runError, abortController>>
  /\ UNCHANGED <<configuration, lineup, clock>>

(***************************************************************************)
(* Monte Carlo store: unnamed/part_014, with the worker it drives          *)
(* (worker-enhanced, IMPLEMENTATION_B_GUIDE.md).                           *)
(***************************************************************************)
MaxWorkers == 2      \* runSimulation calls that get as far as a worker or an await

MC_HISTORY_LIMIT == 10

MCDrivers == {"VER", "HAM"}

MIN_RUNS == 500
MAX_RUNS == 20000
DEFAULT_RUNS == 3000

VARIABLES
  mcDrivers,       \* drivers: id -> [isActive, standingsPoints]
  mcRuns,          \* context.runs
  mcResult,        \* result: 0 for null, else the worker whose summary it is
  mcHistory,       \* history of summaries, newest first
  mcIsRunning,     \* isRunning
  mcProgress,      \* progress: -1 for null
  workerRef,       \* _workerRef: 0 for null
  workerTimeout,   \* _workerTimeout: 0 for null, else the worker whose timer it is
  workers,         \* every Worker created so far, with the timer of its call
  mcPending,       \* runSimulation calls suspended at the Ergast await
  mcOp             \* the store operation or callback that ran last

mcVars == <<mcDrivers, mcRuns, mcResult, mcHistory, mcIsRunning, mcProgress,
            workerRef, workerTimeout, workers, mcPending, mcOp>>

NoProgress == -1

\* worker-enhanced runSimulation: Math.max(500, Math.min(20000, Math.floor(context.runs)))
ClampRuns(r) == Max(MIN_RUNS, Min(MAX_RUNS, r))

\* const progressStep = Math.max(1, Math.floor(runs / 20))
progressStep(runs) == Max(1, runs \div 20)

\* number of iterations run + 1 <= runs with (run + 1) % progressStep === 0
TickCount(runs) == runs \div progressStep(runs)

\* Math.floor(((run + 1) / runs) * 100) at the i-th tick, run + 1 = i * progressStep
TickProgress(runs, i) == (100 * (i * progressStep(runs))) \div runs

createInitialDrivers == [d \in MCDrivers |-> [isActive |-> TRUE, standingsPoints |-> FALSE]]

McInit ==
  /\ mcDrivers = createInitialDrivers
  /\ mcRuns = DEFAULT_RUNS
  /\ mcResult = 0
  /\ mcHistory = <<>>
  /\ mcIsRunning = FALSE
  /\ mcProgress = NoProgress
  /\ workerRef = 0
  /\ workerTimeout = 0
  /\ workers = <<>>
  /\ mcPending = <<>>
  /\ mcOp = "init"

ActiveOf(drivers) == {d \in MCDrivers : drivers[d].isActive}

mcToggleDriver(d) ==
  /\ mcDrivers' = [mcDrivers EXCEPT ![d].isActive = ~@]
  /\ mcOp' = "toggleDriver"
  /\ UNCHANGED <<mcRuns, mcResult, mcHistory, mcIsRunning, mcProgress,
                 workerRef, workerTimeout, workers, mcPending>>

mcSetContext(r) ==
  /\ mcRuns' = r
  /\ mcOp' = "setContext"
  /\ UNCHANGED <<mcDrivers, mcResult, mcHistory, mcIsRunning, mcProgress,
                 workerRef, workerTimeout, workers, mcPending>>

\* how the part of runSimulation after `set({ isRunning: true })` ends: the
\* job is posted, worker.postMessage throws (caught), or applying the factors
\* or `new Worker(...)` throws (not caught: the async call rejects)
StartOutcomes == {"posted", "postMessageThrows", "setupThrows"}

\* runSimulation from `set({ isRunning: true })` to the end of the call: the
\* worker and its timer are created, both refs are overwritten, the job is
\* posted.  `drivers` is the call's local list.
StartWorker(drivers, outcome) ==
  IF Cardinality(ActiveOf(drivers)) < 2
    THEN UNCHANGED <<mcIsRunning, mcProgress, workerRef, workerTimeout, workers>>
    ELSE LET w == Len(workers) + 1
         IN IF outcome = "setupThrows"
              THEN /\ mcIsRunning' = TRUE
                   /\ UNCHANGED <<mcProgress, workerRef, workerTimeout, workers>>
            ELSE IF outcome = "posted"
              THEN /\ workers' = Append(workers, [alive |-> TRUE, timer |-> "armed",
                                                  runs |-> ClampRuns(mcRuns), pos |-> 0,
                                                  posted |-> TRUE])
                   /\ mcIsRunning' = TRUE
                   /\ workerRef' = w
                   /\ workerTimeout' = w
                   /\ UNCHANGED mcProgress
              ELSE \* worker.postMessage threw: clearTimeout, isRunning false
                   /\ workers' = Append(workers, [alive |-> TRUE, timer |-> "cleared",
                                                  runs |-> ClampRuns(mcRuns), pos |-> 0,
                                                  posted |-> FALSE])
                   /\ mcIsRunning' = FALSE
                   /\ mcProgress' = NoProgress
                   /\ workerRef' = w
                   /\ workerTimeout' = w

\* runSimulation, called: with standings already loaded the call runs to its
\* end at once, otherwise it suspends at the await of the Ergast requests.
mcRunSimulation(outcome) ==
  /\ Len(workers) + Len(mcPending) < MaxWorkers
  /\ mcOp' = "runSimulation"
  /\ IF \A d \in MCDrivers : ~mcDrivers[d].standingsPoints
       THEN /\ mcPending' = Append(mcPending, mcDrivers)
            /\ UNCHANGED <<mcDrivers, mcRuns, mcResult, mcHistory, mcIsRunning,
                           mcProgress, workerRef, workerTimeout, workers>>
       ELSE /\ StartWorker(mcDrivers, outcome)
            /\ UNCHANGED <<mcDrivers, mcRuns, mcResult, mcHistory, mcPending>>

RemoveAt(s, i) == [j \in 1..(Len(s) - 1) |-> IF j < i THEN s[j] ELSE s[j + 1]]

\* the Ergast requests of call i resolved with the drivers in `fresh`: the
\* call's local list is refreshed (isActive forced to true), written to the
\* store, and the call runs to its end.
ErgastResolved(i, fresh, outcome) ==
  /\ i \in 1..Len(mcPending)
  /\ LET refreshed == [d \in MCDrivers |->
                         IF d \in fresh
                           THEN [isActive |-> TRUE, standingsPoints |-> TRUE]
                           ELSE mcPending[i][d]]
     IN /\ mcDrivers' = refreshed
        /\ StartWorker(refreshed, outcome)
  /\ mcPending' = RemoveAt(mcPending, i)
  /\ mcOp' = "runSimulation"
  /\ UNCHANGED <<mcRuns, mcResult, mcHistory>>

\* the Ergast requests of call i failed: the call goes on with its stale list
ErgastRejected(i, outcome) ==
  /\ i \in 1..Len(mcPending)
  /\ StartWorker(mcPending[i], outcome)
  /\ mcPending' = RemoveAt(mcPending, i)
  /\ mcOp' = "runSimulation"
  /\ UNCHANGED <<mcDrivers, mcRuns, mcResult, mcHistory>>

\* worker.terminate(): the worker stops and its queued messages are dropped
Terminate(ws, w) ==
  IF w = 0 THEN ws ELSE [ws EXCEPT ![w].alive = FALSE, ![w].pos = 0, ![w].posted = FALSE]

ClearTimeout(ws, w) ==
  IF w = 0 \/ ws[w].timer # "armed" THEN ws ELSE [ws EXCEPT ![w].timer = "cleared"]

mcCancelSimulation ==
  /\ workers' = Terminate(ClearTimeout(workers, workerTimeout), workerRef)
  /\ mcIsRunning' = FALSE
  /\ mcProgress' = NoProgress
  /\ workerRef' = 0
  /\ workerTimeout' = 0
  /\ mcOp' = "cancelSimulation"
  /\ UNCHANGED <<mcDrivers, mcRuns, mcResult, mcHistory, mcPending>>

\* the setTimeout callback of worker w's call
mcTimeout(w) ==
  /\ w \in 1..Len(workers)
  /\ workers[w].timer = "armed"
  /\ workers' = [Terminate(workers, w) EXCEPT ![w].timer = "fired"]
  /\ mcIsRunning' = FALSE
  /\ mcProgress' = NoProgress
  /\ mcOp' = "timeout"
  /\ UNCHANGED <<mcDrivers, mcRuns, mcResult, mcHistory, workerRef, workerTimeout, mcPending>>

Listening(w) == w \in 1..Len(workers) /\ workers[w].alive /\ workers[w].posted

\* worker.onmessage, progress message
onProgressMessage(w) ==
  /\ Listening(w)
  /\ workers[w].pos < TickCount(workers[w].runs)
  /\ mcProgress' = TickProgress(workers[w].runs, workers[w].pos + 1)
  /\ workers' = [workers EXCEPT ![w].pos = @ + 1]
  /\ mcOp' = "progress"
  /\ UNCHANGED <<mcDrivers, mcRuns, mcResult, mcHistory, mcIsRunning,
                 workerRef, workerTimeout, mcPending>>

\* [enhancedSummary, ...state.history].slice(0, 10)
SliceFirst(s, n) == IF Len(s) <= n THEN s ELSE SubSeq(s, 1, n)

\* worker.onmessage, result message
onResultMessage(w) ==
  /\ Listening(w)
  /\ workers[w].pos = TickCount(workers[w].runs)
  /\ mcResult' = w
  /\ mcHistory' = SliceFirst(<<w>> \o mcHistory, MC_HISTORY_LIMIT)
  /\ mcIsRunning' = FALSE
  /\ mcProgress' = NoProgress
  /\ workers' = Terminate(ClearTimeout(workers, w), w)
  /\ workerRef' = 0
  /\ workerTimeout' = 0
  /\ mcOp' = "result"
  /\ UNCHANGED <<mcDrivers, mcRuns, mcPending>>

\* worker.onmessage, { type: 'error' }: the worker's last message
onErrorMessage(w) ==
  /\ Listening(w)
  /\ workers' = [ClearTimeout(workers, w) EXCEPT ![w].posted = FALSE]
  /\ mcIsRunning' = FALSE
  /\ mcProgress' = NoProgress
  /\ mcOp' = "errorMessage"
  /\ UNCHANGED <<mcDrivers, mcRuns, mcResult, mcHistory, workerRef, workerTimeout, mcPending>>

\* worker.onerror
onWorkerError(w) ==
  /\ Listening(w)
  /\ workers' = [ClearTimeout(workers, w) EXCEPT ![w].posted = FALSE]
  /\ mcIsRunning' = FALSE
  /\ mcProgress' = NoProgress
  /\ mcOp' = "workerError"
  /\ UNCHANGED <<mcDrivers, mcRuns, mcResult, mcHistory, workerRef, workerTimeout, mcPending>>

mcReset ==
  /\ mcDrivers' = createInitialDrivers
  /\ mcRuns' = DEFAULT_RUNS
  /\ mcResult' = 0
  /\ mcHistory' = <<>>
  /\ mcIsRunning' = FALSE
  /\ mcProgress' = NoProgress
  /\ mcOp' = "reset"
  /\ UNCHANGED <<workerRef, workerTimeout, workers, mcPending>>


(***************************************************************************)
(* Perk store: unnamed/part_011 (startRun / endRun / resetRun / resetAll)  *)
(***************************************************************************)
MaxPerkClock == 12   \* largest Date.now() reading of the perk store

VARIABLES
  pkCurrentRun,    \* currentRun: 0 for null, else the run's id
  pkIsRunning,     \* isRunning
  pkIsFinished,    \* isFinished
  pkHistory,       \* history: SimulationRun[]
  pkClock          \* Date.now()

perkVars == <<pkCurrentRun, pkIsRunning, pkIsFinished, pkHistory, pkClock>>

PerkInit ==
  /\ pkCurrentRun = 0
  /\ pkIsRunning = FALSE
  /\ pkIsFinished = FALSE
  /\ pkHistory = <<>>
  /\ pkClock = 0

startRun ==
  /\ pkClock < MaxPerkClock
  /\ pkClock' = pkClock + 1
  /\ pkCurrentRun' = pkClock + 1
  /\ pkIsRunning' = TRUE
  /\ pkIsFinished' = FALSE
  /\ UNCHANGED pkHistory

endRun ==
  /\ IF pkCurrentRun = 0
       THEN UNCHANGED perkVars
       ELSE /\ pkCurrentRun' = 0
            /\ pkIsRunning' = FALSE
            /\ pkIsFinished' = TRUE
            /\ pkHistory' = Append(pkHistory, pkCurrentRun)
            /\ UNCHANGED pkClock

resetRun ==
  /\ pkCurrentRun' = 0
  /\ pkIsRunning' = FALSE
  /\ pkIsFinished' = FALSE
  /\ UNCHANGED <<pkHistory, pkClock>>

resetAll ==
  /\ pkCurrentRun' = 0
  /\ pkIsRunning' = FALSE
  /\ pkIsFinished' = FALSE
  /\ pkHistory' = <<>>
  /\ UNCHANGED pkClock


(***************************************************************************)
(* Worker engine, progress loop of F1SimulationEngine.runSimulation        *)
(* (IMPLEMENTATION_B_GUIDE.md) and the worker's message handler.           *)
(***************************************************************************)
MaxRunsSpread == 12  \* context.runs is drawn from MIN_RUNS - 1 .. MIN_RUNS + MaxRunsSpread

VARIABLES
  pgRuns,          \* runs, after clamping
  pgRun,           \* iterations completed (run + 1 of the last finished iteration)
  pgPosted,        \* progress messages posted so far
  pgDone           \* the result message was posted

progVars == <<pgRuns, pgRun, pgPosted, pgDone>>

\* no job posted to the worker
ProgInit0 ==
  /\ pgRuns = MIN_RUNS
  /\ pgRun = 0
  /\ pgPosted = <<>>
  /\ pgDone = FALSE

ProgInit ==
  /\ \E r \in (MIN_RUNS - 1)..(MIN_RUNS + MaxRunsSpread) : pgRuns = ClampRuns(r)
  /\ pgRun = 0
  /\ pgPosted = <<>>
  /\ pgDone = FALSE

\* Math.floor(((run + 1) / runs) * 100)
Percent(done, runs) == (100 * done) \div runs

\* one iteration of the main loop, with its progress report
Iterate ==
  /\ ~pgDone
  /\ pgRun < pgRuns
  /\ pgRun' = pgRun + 1
  /\ pgPosted' = IF (pgRun + 1) % progressStep(pgRuns) = 0
                   THEN Append(pgPosted, Percent(pgRun + 1, pgRuns))
                   ELSE pgPosted
  /\ UNCHANGED <<pgRuns, pgDone>>

\* self.postMessage({ type: 'result', result })
PostResult ==
  /\ ~pgDone
  /\ pgRun = pgRuns
  /\ pgDone' = TRUE
  /\ UNCHANGED <<pgRuns, pgRun, pgPosted>>


(***************************************************************************)
(* Factor refresh of the Monte Carlo store: fetchNewsFactors               *)
(***************************************************************************)
MaxNow == 8          \* clock readings, in units of TICK_MS
MaxFetches == 3      \* network calls per behaviour

COOLDOWN_MS == 30000

\* granularity of the clock readings: a third of the cooldown
TICK_MS == COOLDOWN_MS \div 3

VARIABLES
  now,                  \* Date.now()
  variationsLoading,
  variationsError,      \* <<>> for null
  variationsUpdatedAt,  \* 0 for null
  fetches,              \* requests to /api/news/factors: sent, and awaited by a call
  lastRequestAt,        \* when fetchNewsFactors was last called (0: never)
  lastSuccessAt,        \* when a refresh last succeeded (0: never)
  nwOp                  \* the operation or continuation that ran last

newsVars == <<now, variationsLoading, variationsError, variationsUpdatedAt,
              fetches, lastRequestAt, lastSuccessAt, nwOp>>

ErrHttp == "HTTP 500"

NewsInit ==
  /\ now = TICK_MS
  /\ variationsLoading = FALSE
  /\ variationsError = <<>>
  /\ variationsUpdatedAt = 0
  /\ fetches = [sent |-> 0, pending |-> 0]
  /\ lastRequestAt = 0
  /\ lastSuccessAt = 0
  /\ nwOp = "init"

AdvanceClock ==
  /\ now < MaxNow * TICK_MS
  /\ now' = now + TICK_MS
  /\ nwOp' = "tick"
  /\ UNCHANGED <<variationsLoading, variationsError, variationsUpdatedAt,
                 fetches, lastRequestAt, lastSuccessAt>>

\* `Aguarde ${rem}s para nova análise.`
CooldownMessage(rem) == <<"Aguarde", rem, "s para nova análise.">>

CeilDiv(a, b) == (a + b - 1) \div b

\* if (last && (now - last) < COOLDOWN_MS)
InCooldown(last, t) == last # 0 /\ (t - last) < COOLDOWN_MS

\* fetchNewsFactors up to the await of fetch
fetchNewsFactors ==
  /\ fetches.sent < MaxFetches
  /\ nwOp' = "fetchNewsFactors"
  /\ lastRequestAt' = now
  /\ IF InCooldown(variationsUpdatedAt, now)
       THEN /\ variationsError' =
                 CooldownMessage(CeilDiv(COOLDOWN_MS - (now - variationsUpdatedAt), 1000))
            /\ UNCHANGED <<now, variationsLoading, variationsUpdatedAt, fetches, lastSuccessAt>>
       ELSE /\ variationsLoading' = TRUE
            /\ variationsError' = <<>>
            /\ fetches' = [sent |-> fetches.sent + 1, pending |-> fetches.pending + 1]
            /\ UNCHANGED <<now, variationsUpdatedAt, lastSuccessAt>>

\* the response arrived with res.ok and a JSON body
FetchOk ==
  /\ fetches.pending > 0
  /\ fetches' = [fetches EXCEPT !.pending = @ - 1]
  /\ variationsLoading' = FALSE
  /\ variationsUpdatedAt' = now
  /\ lastSuccessAt' = now
  /\ nwOp' = "fetchOk"
  /\ UNCHANGED <<now, variationsError, lastRequestAt>>

\* fetch rejected, or !res.ok, or the body was not JSON
FetchFailed ==
  /\ fetches.pending > 0
  /\ fetches' = [fetches EXCEPT !.pending = @ - 1]
  /\ variationsLoading' = FALSE
  /\ variationsError' = <<ErrHttp>>
  /\ nwOp' = "fetchFailed"
  /\ UNCHANGED <<now, variationsUpdatedAt, lastRequestAt, lastSuccessAt>>


(***************************************************************************)
(* Prediction engine: lib/prediction.ts runPrediction, the loop shared by  *)
(* the worker engine F1SimulationEngine (IMPLEMENTATION_B_GUIDE.md), and   *)
(* the factor application of the Monte Carlo store that feeds it.          *)
(*                                                                         *)
(* Quantisation: probabilities and rates are in thousandths, scores in     *)
(* quarter-thousandths, the generator has RngResolution output values      *)
(* (output = state / RngResolution) in place of 2^32, and the loop is cut  *)
(* after MaxEngineRuns iterations in place of clamp(runs, 500, 20000).     *)
(* paceScore, the weighted sum of the normalised metrics, is the same in   *)
(* every run of a call and is an input of the model.                       *)
(***************************************************************************)
MaxEngineRuns == 3    \* iterations of the prediction loop per call
MaxDrivers == 4       \* drivers handed to the prediction engine
RngResolution == 100  \* output values of the stand-in generator

DriverCodes == <<"VER", "HAM", "LEC", "NOR", "SAI", "RUS", "ALO", "PIA">>

\* dnfRate values of the inputs, in thousandths (0.6 is the store's cap)
DnfRates == {0, 600}

\* context.seed values of the inputs
Seeds == {7, 33, 37, 42, 314}

VARIABLES
  egDrivers,    \* the caller's drivers (DriverSelection[])
  egContext,    \* RaceContext; seed is <<>> when undefined, <<n>> when a number
  egFactors,    \* enabled variation factors of the current call
  egPaceMultipliers, \* the store's paceMultipliers, by index into activeDrivers
  egPhase,      \* "idle" | "running" | "done"
  egCall,       \* number of calls started
  egActive,     \* activeDrivers of the current call
  egRng,        \* rng of the current call: [global, a]
  mathRandom,   \* state of the process-wide Math.random
  egRun,        \* loop index i
  egStats,      \* stats, by index into activeDrivers
  egSample,     \* raceSample of the last iteration, with positions
  egDraws,      \* draws of the last iteration, in order
  egSummary,    \* SimulationSummary of the last finished call
  egFirst       \* SimulationSummary of the first call

engineVars == <<egDrivers, egContext, egFactors, egPaceMultipliers, egPhase, egCall, egActive, egRng,
                mathRandom, egRun, egStats, egSample, egDraws, egSummary, egFirst>>

NoSummary == [runs |-> 0, results |-> <<>>]

\* pace by roster index: an abstraction of lines 151-173 (see header)
PaceOf(i) == 900 - 100 * i

EngineInit0 ==
  /\ egDrivers = <<>>
  /\ egContext = [weather |-> "dry", tyreStress |-> "medium", safetyCar |-> "low",
                  randomness |-> 0, seed |-> <<>>]
  /\ egFactors = <<>>
  /\ egPaceMultipliers = <<>>
  /\ egPhase = "idle"
  /\ egCall = 0
  /\ egActive = <<>>
  /\ egRng = [global |-> TRUE, a |-> 0]
  /\ mathRandom = 0
  /\ egRun = 0
  /\ egStats = <<>>
  /\ egSample = <<>>
  /\ egDraws = <<>>
  /\ egSummary = NoSummary
  /\ egFirst = NoSummary

EngineInit ==
  /\ \E n \in 1..MaxDrivers, rates \in [1..MaxDrivers -> DnfRates] :
       /\ \A i \in 1..MaxDrivers : i > n => rates[i] = 0
       /\ egDrivers = [i \in 1..MaxDrivers |->
                         [id |-> DriverCodes[i], paceScore |-> PaceOf(i),
                          dnfRate |-> rates[i], gridPosition |-> i, isActive |-> i <= n]]
  /\ \E w \in {"dry", "wet"}, s \in {<<>>} \cup {<<n>> : n \in Seeds} :
       egContext = [weather |-> w, tyreStress |-> "medium", safetyCar |-> "low",
                    randomness |-> 0, seed |-> s]
  /\ egFactors = <<>>
  /\ egPaceMultipliers = <<>>
  /\ egPhase = "idle"
  /\ egCall = 0
  /\ egActive = <<>>
  /\ egRng = [global |-> TRUE, a |-> 0]
  /\ mathRandom \in {0, 1}
  /\ egRun = 0
  /\ egStats = <<>>
  /\ egSample = <<>>
  /\ egDraws = <<>>
  /\ egSummary = NoSummary
  /\ egFirst = NoSummary

clamp(value, lo, hi) == Min(Max(value, lo), hi)

\* ---- Monte Carlo store, runSimulation: building the worker message ----

\* targetMatches for a driver target
targetMatches(f, d) == f.target = d.id

\* Math.round(num / den) for den > 0: halves go towards +Infinity
MathRound(num, den) == (2 * num + den) \div (2 * den)

\* one factor applied to one effective driver; f.magnitude is in quarters
applyFactor(f, d) ==
  IF targetMatches(f, d) /\ f.impactType = "reliability"
    THEN [d EXCEPT !.dnfRate = Max(0, Min(600, d.dnfRate + (f.magnitude * 50) \div 4))]
  ELSE IF targetMatches(f, d) /\ f.impactType = "qualifying"
    THEN LET delta == MathRound(f.magnitude * (-2), 4)
         IN [d EXCEPT !.gridPosition = Max(1, d.gridPosition + delta)]
  ELSE d

RECURSIVE applyFactors(_, _)
applyFactors(fs, d) ==
  IF fs = <<>> THEN d ELSE applyFactors(Tail(fs), applyFactor(Head(fs), d))

\* effectiveDrivers after the reliability loop
effectiveDrivers(drivers, fs) ==
  LET active == SelectSeq(drivers, LAMBDA d : d.isActive)
  IN [i \in 1..Len(active) |-> applyFactors(fs, active[i])]

RECURSIVE paceMultiplier(_, _)
\* paceMultipliers.get(d.id), in thousandths
paceMultiplier(fs, d) ==
  IF fs = <<>> THEN 1000
  ELSE LET f == fs[Len(fs)]
           prev == paceMultiplier(SubSeq(fs, 1, Len(fs) - 1), d)
       IN IF f.impactType = "pace" /\ targetMatches(f, d)
            THEN Max(600, Min(1500, (prev * (400 + f.magnitude * 12)) \div 400))
            ELSE prev

\* the message handed to worker.postMessage: the pace multipliers only
\* enter the local `weights`, which is not part of the message
workerMessage(drivers, ctx, fs) ==
  [drivers |-> effectiveDrivers(drivers, fs), context |-> ctx, seed |-> ctx.seed]

\* ---- generator ----

\* one step of the seeded generator (stand-in for mulberry32)
NextRandom(s) == (21 * s + 7) % RngResolution

\* rngOf, had it ignored context.seed
rngAlwaysMathRandom(ctx, mr) == [global |-> TRUE, a |-> mr]

\* const rng = typeof context.seed === 'number' ? mulberry32(context.seed) : Math.random
rngOf(ctx, mr) ==
  IF Len(ctx.seed) = 1 THEN [global |-> FALSE, a |-> ctx.seed[1] % RngResolution]
                       ELSE [global |-> TRUE, a |-> mr]

RECURSIVE DrawNonZero(_)
\* while (u === 0) u = rng(): generator state at the first non-zero output
DrawNonZero(s) == LET t == NextRandom(s) IN IF t = 0 THEN DrawNonZero(t) ELSE t

\* floor of sqrt(-2 ln(u / RngResolution))
Mag(u) ==
  IF u * 100000 <= 1110 * RngResolution THEN 3
  ELSE IF u * 100000 <= 13533 * RngResolution THEN 2
  ELSE IF u * 100000 <= 60653 * RngResolution THEN 1
  ELSE 0

\* 2 cos(2 pi v / RngResolution), rounded to the nearest integer
Cos2(v) ==
  LET w == Min(v, RngResolution - v)
  IN IF w * 100000 <= 11503 * RngResolution THEN 2
     ELSE IF w * 100000 <= 20978 * RngResolution THEN 1
     ELSE IF w * 100000 < 29022 * RngResolution THEN 0
     ELSE IF w * 100000 < 38497 * RngResolution THEN -1
     ELSE -2

\* ---- runPrediction ----

WeatherNoise(w) == IF w = "dry" THEN 85 ELSE IF w = "mixed" THEN 100 ELSE 120
SafetyCarFactor(sc) == IF sc = "low" THEN 88 ELSE IF sc = "medium" THEN 100 ELSE 118

reliabilityAmplifier(ctx) ==
  100 + (IF ctx.weather = "wet" THEN 8 ELSE 0)
      + (IF ctx.tyreStress = "high" THEN 5 ELSE 0)
      + (IF ctx.safetyCar = "high" THEN 2 ELSE IF ctx.safetyCar = "medium" THEN 1 ELSE 0)

\* in thousandths
noiseSigma(ctx) ==
  ((350 + (clamp(ctx.randomness, 0, 100) * 450) \div 100)
     * WeatherNoise(ctx.weather) * SafetyCarFactor(ctx.safetyCar)) \div 10000

\* clamp(1 - dnfRate * reliabilityAmplifier, 0.04, 0.98), in 1/100000
baseReliability(d, ctx) ==
  clamp(100000 - d.dnfRate * reliabilityAmplifier(ctx), 4000, 98000)

RECURSIVE raceSample(_, _, _, _)
\* internalDrivers.map(...): per driver, randomNormal (u then v, each redrawn
\* while zero) and then the reliability check; score in quarter-thousandths
raceSample(drivers, ctx, i, st) ==
  IF i > Len(drivers) THEN st
  ELSE LET u == DrawNonZero(st.rng)
           v == DrawNonZero(u)
           reliabilityCheck == NextRandom(v)
           noise == noiseSigma(ctx) * Mag(u) * Cos2(v)
           didFinish == reliabilityCheck * 100000
                          < baseReliability(drivers[i], ctx) * RngResolution
           finishingScore == IF didFinish THEN 4 * drivers[i].paceScore + 2 * noise
                                          ELSE 4 * (-5000) + noise
       IN raceSample(drivers, ctx, i + 1,
            [rng |-> reliabilityCheck,
             samples |-> Append(st.samples, [didFinish |-> didFinish, score |-> finishingScore]),
             draws |-> st.draws \o << <<"normal", i>>, <<"reliability", i>> >>])

\* raceSample.sort((a, b) => b.score - a.score) followed by position 1, 2, ...
\* (the sort is stable: equal scores keep index order)
positionOf(samples, i) ==
  1 + Cardinality({j \in DOMAIN samples :
        \/ samples[j].score > samples[i].score
        \/ samples[j].score = samples[i].score /\ j < i})

\* isPodium, had it counted the first two places only
isPodiumTopTwo(position) == position <= 2

\* if (position <= 3) driverStats.podiums += 1
isPodium(position) == position <= 3

updateStats(s, sample, position) ==
  [wins |-> s.wins + (IF position = 1 THEN 1 ELSE 0),
   podiums |-> s.podiums + (IF isPodium(position) THEN 1 ELSE 0),
   dnfs |-> s.dnfs + (IF sample.didFinish THEN 0 ELSE 1),
   totalFinish |-> s.totalFinish + position]

\* comparator of the final results.sort
resultBefore(a, b) ==
  IF a.wins # b.wins THEN a.wins > b.wins ELSE a.totalFinish < b.totalFinish

resultTie(a, b) == a.wins = b.wins /\ a.totalFinish = b.totalFinish

buildResults(drivers, stats) ==
  LET rows == [i \in 1..Len(drivers) |->
                 [id |-> drivers[i].id, wins |-> stats[i].wins,
                  podiums |-> stats[i].podiums, dnfs |-> stats[i].dnfs,
                  totalFinish |-> stats[i].totalFinish]]
      rank(i) == 1 + Cardinality({j \in DOMAIN rows :
                        \/ resultBefore(rows[j], rows[i])
                        \/ resultTie(rows[j], rows[i]) /\ j < i})
  IN [p \in 1..Len(rows) |-> rows[CHOOSE i \in DOMAIN rows : rank(i) = p]]

\* enabled factor lists: a reliability factor of magnitude -1 and a pace
\* factor of magnitude +1 (in quarters: -4 and 4), each targeting one driver
ReliabilityFactorOn(id) ==
  <<[impactType |-> "reliability", magnitude |-> -4, target |-> id]>>

PaceFactorOn(id) == <<[impactType |-> "pace", magnitude |-> 4, target |-> id]>>

FactorChoices ==
  {<<>>, ReliabilityFactorOn(DriverCodes[1]), PaceFactorOn(DriverCodes[1])}

\* runs actually iterated
EngineRuns == MaxEngineRuns

\* the caller posts its message and runPrediction starts; the first call of a
\* behaviour is the baseline without factors
startPrediction(fs) ==
  /\ egPhase # "running"
  /\ egCall < 2
  /\ egCall = 0 => fs = <<>>
  /\ egCall' = egCall + 1
  /\ egFactors' = fs
  /\ egFirst' = egSummary
  /\ LET msg == workerMessage(egDrivers, egContext, fs)
         activeDrivers == msg.drivers
     IN /\ egActive' = activeDrivers
        /\ egPaceMultipliers' = [i \in 1..Len(activeDrivers) |->
                                   paceMultiplier(fs, activeDrivers[i])]
        /\ IF Len(activeDrivers) < 2
             THEN /\ egPhase' = "done"
                  /\ egSummary' = NoSummary
                  /\ egStats' = <<>>
                  /\ UNCHANGED egRng
             ELSE /\ egPhase' = "running"
                  /\ egSummary' = egSummary
                  /\ egStats' = [i \in 1..Len(activeDrivers) |->
                                   [wins |-> 0, podiums |-> 0, dnfs |-> 0, totalFinish |-> 0]]
                  /\ egRng' = rngOf(msg.context, mathRandom)
  /\ egRun' = 0
  /\ egSample' = <<>>
  /\ egDraws' = <<>>
  /\ UNCHANGED <<egDrivers, egContext, mathRandom>>

\* one iteration of for (let i = 0; i < runs; i += 1)
simulateOneRun ==
  /\ egPhase = "running"
  /\ egRun < EngineRuns
  /\ LET st == raceSample(egActive, egContext, 1,
                          [rng |-> egRng.a, samples |-> <<>>, draws |-> <<>>])
         placed == [i \in DOMAIN st.samples |->
                      [didFinish |-> st.samples[i].didFinish,
                       score |-> st.samples[i].score,
                       position |-> positionOf(st.samples, i)]]
     IN /\ egSample' = placed
        /\ egDraws' = st.draws
        /\ egRng' = [egRng EXCEPT !.a = st.rng]
        /\ mathRandom' = IF egRng.global THEN st.rng ELSE mathRandom
        /\ egStats' = [i \in DOMAIN egStats |->
                         updateStats(egStats[i], placed[i], placed[i].position)]
  /\ egRun' = egRun + 1
  /\ UNCHANGED <<egDrivers, egContext, egFactors, egPaceMultipliers, egPhase, egCall,
                 egActive, egSummary, egFirst>>

\* results built, sorted and returned
finishPrediction ==
  /\ egPhase = "running"
  /\ egRun = EngineRuns
  /\ egPhase' = "done"
  /\ egSummary' = [runs |-> egRun, results |-> buildResults(egActive, egStats)]
  /\ UNCHANGED <<egDrivers, egContext, egFactors, egPaceMultipliers, egCall, egActive,
                 egRng, mathRandom, egRun, egStats, egSample, egDraws, egFirst>>

(***************************************************************************)
(* Legacy worker (public/worker.js, listed in IMPLEMENTATION_B_GUIDE.md):  *)
(* weighted sampling without replacement over the drivers that finish.     *)
(* Weights are small integers (only their ratios matter) and sigma is 0,   *)
(* so no normal variate is drawn.                                          *)
(***************************************************************************)
VARIABLES
  lgInput,    \* the message: [n, weights, taxaAbandono, seed]
  lgRand,     \* state of rand
  lgK,        \* loop index k
  lgWins,     \* wins, by driver index
  lgDnf,      \* dnfCounts
  lgPosSum,   \* posSum
  lgPosted    \* the final message, <<>> before it is posted

legacyVars == <<lgInput, lgRand, lgK, lgWins, lgDnf, lgPosSum, lgPosted>>

LegacyInit0 ==
  /\ lgInput = [n |-> 0, weights |-> <<>>, taxaAbandono |-> <<>>, seed |-> <<>>]
  /\ lgRand = 0
  /\ lgK = 0
  /\ lgWins = <<>>
  /\ lgDnf = <<>>
  /\ lgPosSum = <<>>
  /\ lgPosted = <<>>

LegacyInit ==
  /\ \E n \in 2..3, w \in [1..3 -> {1, 2}], t \in [1..3 -> DnfRates], s \in Seeds :
       lgInput = [n |-> n, weights |-> SubSeq(w, 1, n), taxaAbandono |-> SubSeq(t, 1, n),
                  seed |-> <<s>>]
  /\ lgRand = rngOf(lgInput, 0).a
  /\ lgK = 0
  /\ lgWins = [i \in 1..lgInput.n |-> 0]
  /\ lgDnf = [i \in 1..lgInput.n |-> 0]
  /\ lgPosSum = [i \in 1..lgInput.n |-> 0]
  /\ lgPosted = <<>>

RECURSIVE Pow(_, _)
Pow(b, e) == IF e = 0 THEN 1 ELSE b * Pow(b, e - 1)

RECURSIVE sampleAlive(_, _, _)
\* for (i < n): if (rand() >= pDNF) alive.push(i) else dnfCounts++
sampleAlive(input, i, st) ==
  IF i > input.n THEN st
  ELSE LET r == NextRandom(st.rand)
       IN sampleAlive(input, i + 1,
            [rand |-> r,
             alive |-> IF r * 1000 >= input.taxaAbandono[i] * RngResolution
                         THEN Append(st.alive, i) ELSE st.alive])

RECURSIVE sampleKeys(_, _, _)
\* one uniform u per alive driver; keyVals[j] = -log(u) / (wRun[j] / totalRun)
sampleKeys(alive, j, st) ==
  IF j > Len(alive) THEN st
  ELSE LET u == NextRandom(st.rand)
       IN sampleKeys(alive, j + 1, [rand |-> u, u |-> Append(st.u, u)])

\* keyVals[a] < keyVals[b], for uniforms ua, ub and weights wa, wb:
\* -ln(ua)/wa < -ln(ub)/wb  iff  ua^wb > ub^wa
keyLess(ua, wa, ub, wb) ==
  Pow(ua, wb) * Pow(RngResolution, wa) > Pow(ub, wa) * Pow(RngResolution, wb)

\* ord.sort((a, b) => keyVals[a] - keyVals[b]): rank of entry j of alive
rankOf(input, alive, u, j) ==
  1 + Cardinality({h \in 1..Len(alive) :
        \/ keyLess(u[h], input.weights[alive[h]], u[j], input.weights[alive[j]])
        \/ /\ ~keyLess(u[j], input.weights[alive[j]], u[h], input.weights[alive[h]])
           /\ h < j})

\* one iteration of for (let k = 0; k < runs; k++)
legacyRun ==
  /\ lgPosted = <<>>
  /\ lgK < EngineRuns
  /\ lgK' = lgK + 1
  /\ LET n == lgInput.n
         a == sampleAlive(lgInput, 1, [rand |-> lgRand, alive |-> <<>>])
         alive == a.alive
         m == Len(alive)
         isAlive(i) == \E j \in 1..m : alive[j] = i
     IN /\ lgDnf' = [i \in 1..n |-> lgDnf[i] + (IF isAlive(i) THEN 0 ELSE 1)]
        /\ IF m = 0
             THEN \* everyone DNF'd: continue
                  /\ lgRand' = a.rand
                  /\ UNCHANGED <<lgWins, lgPosSum>>
             ELSE LET ks == sampleKeys(alive, 1, [rand |-> a.rand, u |-> <<>>])
                      rank(i) == rankOf(lgInput, alive, ks.u,
                                        CHOOSE j \in 1..m : alive[j] = i)
                  IN /\ lgRand' = ks.rand
                     /\ lgWins' = [i \in 1..n |->
                                     lgWins[i] + (IF isAlive(i) /\ rank(i) = 1 THEN 1 ELSE 0)]
                     /\ lgPosSum' = [i \in 1..n |->
                                       lgPosSum[i] + (IF isAlive(i) THEN rank(i) ELSE n + 1)]
  /\ UNCHANGED <<lgInput, lgPosted>>

\* self.postMessage({ wins, ..., posMean, dist, dnfCounts })
legacyPost ==
  /\ lgPosted = <<>>
  /\ lgK = EngineRuns
  /\ lgPosted' = <<[wins |-> lgWins, posSum |-> lgPosSum, dnfCounts |-> lgDnf, runs |-> lgK]>>
  /\ UNCHANGED <<lgInput, lgRand, lgK, lgWins, lgDnf, lgPosSum>>

(***************************************************************************)
(* Ordering of summary.results: the final .sort of the worker engine       *)
(* (IMPLEMENTATION_B_GUIDE.md, also part_022) with its 0.001 tolerance,    *)
(* and of runPrediction (lib/prediction.ts) with exact comparison.         *)
(* Rows carry counts; winProbability = wins / runs and                     *)
(* averageFinish = totalFinish / runs.  Array.prototype.sort is the        *)
(* runtime's: for fewer than 64 elements, a run is detected at the front   *)
(* and the rest is placed by binary insertion.                             *)
(***************************************************************************)
VARIABLES
  srImpl,      \* "worker" (tolerance comparator) | "prediction" (exact comparator)
  srRuns,      \* runs
  srRows,      \* the mapped rows, in activeDrivers order
  srResults    \* summary.results, <<>> before the sort

sortVars == <<srImpl, srRuns, srRows, srResults>>

SortInit0 ==
  /\ srImpl = "prediction"
  /\ srRuns = DEFAULT_RUNS
  /\ srRows = <<>>
  /\ srResults = <<>>

\* three drivers with near-equal win counts: wins sum to runs and the
\* positions 1, 2, 3 of every run sum to 6
SortInit ==
  /\ srImpl \in {"worker", "prediction"}
  /\ srRuns = DEFAULT_RUNS
  /\ \E w \in [1..3 -> {srRuns \div 3 + d : d \in {-4, -2, 0, 2, 4}}],
        f \in [1..3 -> {2 * srRuns + d : d \in {-10, 0, 10}}] :
       /\ w[1] + w[2] + w[3] = srRuns
       /\ f[1] + f[2] + f[3] = 6 * srRuns
       /\ srRows = [i \in 1..3 |-> [id |-> DriverCodes[i], wins |-> w[i], totalFinish |-> f[i]]]
  /\ srResults = <<>>

Abs(x) == IF x < 0 THEN -x ELSE x

\* Math.abs(b.winProbability - a.winProbability) > 0.001
winsDiffer(a, b) == Abs(b.wins - a.wins) * 1000 > srRuns

\* the comparator handed to .sort (sign of its return value)
compareResults(a, b) ==
  IF srImpl = "worker"
    THEN IF winsDiffer(a, b) THEN b.wins - a.wins ELSE a.totalFinish - b.totalFinish
    ELSE IF b.wins # a.wins THEN b.wins - a.wins ELSE a.totalFinish - b.totalFinish

Reverse(s) == [i \in 1..Len(s) |-> s[Len(s) + 1 - i]]

RECURSIVE runEnd(_, _, _)
\* length of the run at the front of a; idx is the next element to look at
runEnd(a, idx, isDescending) ==
  IF idx > Len(a) THEN Len(a)
  ELSE LET order == compareResults(a[idx], a[idx - 1])
       IN IF (isDescending /\ order >= 0) \/ (~isDescending /\ order < 0)
            THEN idx - 1
            ELSE runEnd(a, idx + 1, isDescending)

\* the run at the front, reversed in place when it is descending
CountAndMakeRun(a) ==
  LET isDescending == compareResults(a[2], a[1]) < 0
      runLength == runEnd(a, 3, isDescending)
  IN [runLength |-> runLength,
      a |-> IF isDescending
              THEN Reverse(SubSeq(a, 1, runLength)) \o SubSeq(a, runLength + 1, Len(a))
              ELSE a]

RECURSIVE searchSlot(_, _, _, _)
\* binary search of the slot for pivot in a[left .. right - 1] (0-based)
searchSlot(a, pivot, left, right) ==
  IF left >= right THEN left
  ELSE LET mid == left + (right - left) \div 2
       IN IF compareResults(pivot, a[mid + 1]) < 0
            THEN searchSlot(a, pivot, left, mid)
            ELSE searchSlot(a, pivot, mid + 1, right)

RECURSIVE BinaryInsertionSort(_, _)
\* elements from 0-based index start on are inserted into the sorted front
BinaryInsertionSort(a, start) ==
  IF start >= Len(a) THEN a
  ELSE LET pivot == a[start + 1]
           left == searchSlot(a, pivot, 0, start)
       IN BinaryInsertionSort(
            SubSeq(a, 1, left) \o <<pivot>> \o SubSeq(a, left + 1, start)
              \o SubSeq(a, start + 2, Len(a)),
            start + 1)

ArraySort(a) ==
  IF Len(a) < 2 THEN a
  ELSE LET run == CountAndMakeRun(a) IN BinaryInsertionSort(run.a, run.runLength)

\* results = activeDrivers.map(...).sort(...)
sortResults ==
  /\ srResults = <<>>
  /\ srResults' = ArraySort(srRows)
  /\ UNCHANGED <<srImpl, srRuns, srRows>>


(***************************************************************************)
(* Qualifying factors of the Monte Carlo store: the grid position of the   *)
(* matched driver in the message posted to the worker.                     *)
(***************************************************************************)
MaxGrid == 8   \* largest gridPosition of the inputs

VARIABLES
  qlDrivers,    \* the store's active drivers
  qlFactor,     \* the enabled qualifying factor
  qlPosted      \* drivers of the posted message, <<>> before runSimulation

qualifyingVars == <<qlDrivers, qlFactor, qlPosted>>

QualifyingInit0 ==
  /\ qlDrivers = <<>>
  /\ qlFactor = <<>>
  /\ qlPosted = <<>>

\* two active drivers; the factor targets the second, with a magnitude of
\* -1, -0.75, ..., 1
QualifyingInit ==
  /\ \E g \in 1..MaxGrid :
       qlDrivers = [i \in 1..2 |->
                      [id |-> DriverCodes[i], paceScore |-> PaceOf(i), dnfRate |-> 0,
                       gridPosition |-> IF i = 1 THEN 1 ELSE g, isActive |-> TRUE]]
  /\ \E q \in -4..4 :
       qlFactor = <<[impactType |-> "qualifying", magnitude |-> q, target |-> DriverCodes[2]]>>
  /\ qlPosted = <<>>

\* runSimulation up to worker.postMessage
postWithQualifying ==
  /\ qlPosted = <<>>
  /\ qlPosted' = workerMessage(qlDrivers, egContext, qlFactor).drivers
  /\ UNCHANGED <<qlDrivers, qlFactor>>


(***************************************************************************)
(* Normal variates: randomNormal (lib/prediction.ts), RandomGenerator.normal *)
(* of the worker engine (IMPLEMENTATION_B_GUIDE.md) and OptimizedRandom of *)
(* runPredictionOptimized (part_022).  The first two draw from the         *)
(* mulberry32 stand-in NextRandom; OptimizedRandom's 32-bit xorshift state *)
(* is kept exactly, as a pair <<high 16 bits, low 16 bits>>.               *)
(***************************************************************************)
MaxNormals == 3   \* normal() calls, or simulation runs, per generator
MaxSpins == 3     \* iterations of a redraw loop that are counted

Half == Pow(2, 16)
Zero32 == <<0, 0>>

RECURSIVE Xor16(_, _)
\* bitwise exclusive or of two naturals
Xor16(a, b) ==
  IF a = 0 THEN b
  ELSE IF b = 0 THEN a
  ELSE ((a + b) % 2) + 2 * Xor16(a \div 2, b \div 2)

Xor32(x, y) == <<Xor16(x[1], y[1]), Xor16(x[2], y[2])>>

\* x << k on 32 bits, 0 < k < 16
ShiftLeft(x, k) ==
  LET p == Pow(2, k)
  IN <<((x[1] * p) % Half) + (x[2] \div Pow(2, 16 - k)), (x[2] * p) % Half>>

\* x >>> k on 32 bits, 16 <= k < 32
ShiftRightHigh(x, k) == <<0, x[1] \div Pow(2, k - 16)>>

\* the first bitwise operator applied to this.seed converts it with ToInt32:
\* the default seed Math.random() is a fraction in [0, 1) and becomes 0
ToInt32(seed) == IF seed[1] = "fraction" THEN Zero32 ELSE <<0, seed[2]>>

\* constructor arguments: the default Math.random() and two integers
OptimizedSeeds == {<<"fraction", 0>>, <<"int", 1>>, <<"int", 42>>}

\* OptimizedRandom.next: state after the three xorshift steps; the value
\* returned is state / 2^32, zero exactly when the state is Zero32
OptimizedNext(s) ==
  LET a == Xor32(s, ShiftLeft(s, 13))
      b == Xor32(a, ShiftRightHigh(a, 17))
  IN Xor32(b, ShiftLeft(b, 5))

VARIABLES
  gnImpl,     \* which generator this instance is
  gnRng,      \* state of the mulberry32 stand-in
  orSeed,     \* OptimizedRandom.seed after ToInt32
  gnPc,       \* position inside runPredictionOptimized, "done" on return
  gnU,        \* u kept by OptimizedRandom.normal while v is redrawn
  gnSpins,    \* iterations of the redraw loops so far (saturating)
  gnLogArg,   \* numerator of the last uniform passed to Math.log, <<>> if none
  gnMade      \* normal() calls, or runs, completed

normalVars == <<gnImpl, gnRng, orSeed, gnPc, gnU, gnSpins, gnLogArg, gnMade>>

NormalInit0 ==
  /\ gnImpl = "randomNormal"
  /\ gnRng = 0
  /\ orSeed = Zero32
  /\ gnPc = "idle"
  /\ gnU = Zero32
  /\ gnSpins = 0
  /\ gnLogArg = <<>>
  /\ gnMade = 0

NormalInit ==
  /\ \E impl \in {"randomNormal", "RandomGenerator.normal", "OptimizedRandom"} :
       /\ gnImpl = impl
       /\ IF impl = "OptimizedRandom"
            THEN /\ gnRng = 0
                 /\ \E seed \in OptimizedSeeds : orSeed = ToInt32(seed)
            ELSE /\ gnRng \in 0..(RngResolution - 1)
                 /\ orSeed = Zero32
  /\ gnPc = "idle"
  /\ gnU = Zero32
  /\ gnSpins = 0
  /\ gnLogArg = <<>>
  /\ gnMade = 0

\* randomNormal(mean, sd, rng): both uniforms are redrawn while zero
randomNormal ==
  /\ gnImpl = "randomNormal"
  /\ gnMade < MaxNormals
  /\ LET u == DrawNonZero(gnRng)
         v == DrawNonZero(u)
     IN /\ gnLogArg' = <<0, u>>
        /\ gnRng' = v
  /\ gnMade' = gnMade + 1
  /\ UNCHANGED <<gnImpl, orSeed, gnPc, gnU, gnSpins>>

\* RandomGenerator.normal: u1 and u2 are used as drawn
RandomGeneratorNormal ==
  /\ gnImpl = "RandomGenerator.normal"
  /\ gnMade < MaxNormals
  /\ LET u1 == NextRandom(gnRng)
         u2 == NextRandom(u1)
     IN /\ gnLogArg' = <<0, u1>>
        /\ gnRng' = u2
  /\ gnMade' = gnMade + 1
  /\ UNCHANGED <<gnImpl, orSeed, gnPc, gnU, gnSpins>>

\* runPredictionOptimized with two active drivers, one this.next() call per
\* step.  normalBatch(2) draws u ...
normalBatchDrawU ==
  /\ gnImpl = "OptimizedRandom"
  /\ gnPc = "idle"
  /\ LET u == OptimizedNext(orSeed)
     IN /\ gnU' = u
        /\ orSeed' = u
  /\ gnPc' = "batch_v"
  /\ UNCHANGED <<gnImpl, gnRng, gnSpins, gnLogArg, gnMade>>

\* ... and v, and falls back to normal() when either is zero
normalBatchDrawV ==
  /\ gnImpl = "OptimizedRandom"
  /\ gnPc = "batch_v"
  /\ LET v == OptimizedNext(orSeed)
     IN /\ orSeed' = v
        /\ IF gnU = Zero32 \/ v = Zero32
             THEN /\ gnPc' = "normal_u"
                  /\ gnU' = Zero32
                  /\ UNCHANGED gnLogArg
             ELSE /\ gnPc' = "reliability_1"
                  /\ gnLogArg' = gnU
                  /\ UNCHANGED gnU
  /\ UNCHANGED <<gnImpl, gnRng, gnSpins, gnMade>>

\* one iteration of while (u === 0) u = this.next(), then of the loop for v;
\* on leaving the second loop Math.log(u) is evaluated (the second fallback
\* call returns the spare and the run goes on to its reliability draws)
normalRedraw ==
  /\ gnImpl = "OptimizedRandom"
  /\ gnPc \in {"normal_u", "normal_v"}
  /\ LET t == OptimizedNext(orSeed)
     IN /\ orSeed' = t
        /\ gnU' = IF gnPc = "normal_u" THEN t ELSE gnU
        /\ gnPc' = IF t = Zero32 THEN gnPc
                   ELSE IF gnPc = "normal_u" THEN "normal_v"
                   ELSE "reliability_1"
        /\ gnLogArg' = IF gnPc = "normal_v" /\ t # Zero32 THEN gnU ELSE gnLogArg
  /\ gnSpins' = Min(gnSpins + 1, MaxSpins)
  /\ UNCHANGED <<gnImpl, gnRng, gnMade>>

\* const reliabilityCheck = random.next(), once per driver; the run is
\* complete after the second
reliabilityCheck ==
  /\ gnImpl = "OptimizedRandom"
  /\ gnPc \in {"reliability_1", "reliability_2"}
  /\ orSeed' = OptimizedNext(orSeed)
  /\ IF gnPc = "reliability_1"
       THEN /\ gnPc' = "reliability_2"
            /\ UNCHANGED gnMade
       ELSE /\ gnMade' = gnMade + 1
            /\ gnPc' = IF gnMade + 1 = MaxNormals THEN "done" ELSE "idle"
  /\ UNCHANGED <<gnImpl, gnRng, gnU, gnSpins, gnLogArg>>


(***************************************************************************)
(* CSV driver ingest: parseDriversFromCSV (part_020).  A line of the input *)
(* is one of four texts; only its driver_name column and whether it is the *)
(* header or blank matter to the row check.                                *)
(***************************************************************************)
MaxCsvLines == 4   \* lines of the input text

BlankLine == "   "
HeaderLine == "driver_name,team_name,grid_position,..."
NamedRow == "Max Verstappen,Red Bull,1,..."
UnnamedRow == ",Red Bull,1,..."
CsvLineTexts == {BlankLine, HeaderLine, NamedRow, UnnamedRow}

\* line.trim(), as far as its truth value goes
trim(line) == IF line = BlankLine THEN "" ELSE line

\* obj.driver_name || '' of a data line
driverNameOf(line) ==
  IF line = HeaderLine THEN "driver_name"
  ELSE IF line = NamedRow THEN "Max Verstappen"
  ELSE ""

\* required.filter(h => !headers.includes(h)).length === 0
hasRequiredHeaders(line) == line = HeaderLine

RECURSIVE firstUnnamed(_, _)
\* rowIdx of the first data line whose name is empty, 0 when there is none
\* (rowIdx counted from 1 here)
firstUnnamed(dataLines, rowIdx) ==
  IF rowIdx > Len(dataLines) THEN 0
  ELSE IF driverNameOf(dataLines[rowIdx]) = "" THEN rowIdx
  ELSE firstUnnamed(dataLines, rowIdx + 1)

\* the outcome of parseDriversFromCSV(csvText): the error thrown, with the
\* number in its message, or the number of rows returned
parseDriversFromCSV(csvText) ==
  LET lines == SelectSeq(csvText, LAMBDA line : trim(line) # "")
  IN IF Len(lines) < 2
       THEN [error |-> "CSV vazio ou sem linhas de dados", linha |-> 0, rows |-> 0]
     ELSE IF ~hasRequiredHeaders(lines[1])
       THEN [error |-> "Cabecalhos em falta no CSV", linha |-> 0, rows |-> 0]
     ELSE LET dataLines == SubSeq(lines, 2, Len(lines))
              bad == firstUnnamed(dataLines, 1)
          IN IF bad # 0
               THEN [error |-> "Nome do piloto vazio na linha", linha |-> (bad - 1) + 2, rows |-> 0]
               ELSE [error |-> "", linha |-> 0, rows |-> Len(dataLines)]

VARIABLES
  csvText,     \* the input, as its sequence of lines
  csvOutcome   \* <<>> before the call, then <<outcome>>

csvVars == <<csvText, csvOutcome>>

CsvInit0 ==
  /\ csvText = <<>>
  /\ csvOutcome = <<>>

CsvInit ==
  /\ \E n \in 1..MaxCsvLines : csvText \in [1..n -> CsvLineTexts]
  /\ csvOutcome = <<>>

loadDriversFromCSV ==
  /\ csvOutcome = <<>>
  /\ csvOutcome' = <<parseDriversFromCSV(csvText)>>
  /\ UNCHANGED csvText


(***************************************************************************)
(* F1SimulationManager (lib/prediction.ts): runSimulation with useWorker,  *)
(* runWorkerSimulation and cleanup.  The manager keeps one worker for all  *)
(* its calls; a request is named by the number of the call that posted it. *)
(***************************************************************************)
MaxCalls == 3   \* runSimulation calls on one manager

VARIABLES
  smWorker,   \* this.worker: 0 for null, else the number of the worker
  smCreated,  \* workers created so far
  smQueue,    \* requests posted to the worker and not yet answered
  smCalls     \* one record per call: its promise, timer and listeners

managerVars == <<smWorker, smCreated, smQueue, smCalls>>

ManagerInit ==
  /\ smWorker = 0
  /\ smCreated = 0
  /\ smQueue = <<>>
  /\ smCalls = <<>>

\* runSimulation -> runWorkerSimulation: the worker is created if there is
\* none, the timer is armed, both listeners are added, the request is posted
managerRunSimulation ==
  /\ Len(smCalls) < MaxCalls
  /\ LET w == IF smWorker = 0 THEN smCreated + 1 ELSE smWorker
     IN /\ smWorker' = w
        /\ smCreated' = IF smWorker = 0 THEN smCreated + 1 ELSE smCreated
        /\ smCalls' = Append(smCalls, [status |-> "pending", settledWith |-> 0,
                                       worker |-> w, timer |-> "armed",
                                       onMessage |-> TRUE, onError |-> TRUE])
  /\ smQueue' = Append(smQueue, Len(smCalls) + 1)

\* a promise settles once: resolve and reject of a settled promise do nothing
settle(call, status, request) ==
  IF call.status = "pending"
    THEN [call EXCEPT !.status = status, !.settledWith = request]
    ELSE call

\* messageHandler of one call on a { type: 'result' } or { type: 'error' }
\* message about `request`
messageHandler(call, status, request) ==
  IF call.worker = smWorker /\ call.onMessage
    THEN [settle(call, status, request) EXCEPT !.timer = "cleared", !.onMessage = FALSE]
    ELSE call

\* errorHandler of one call; it is never removed
errorHandler(call, request) ==
  IF call.worker = smWorker /\ call.onError
    THEN [settle(call, "rejected", request) EXCEPT !.timer = "cleared", !.onMessage = FALSE]
    ELSE call

\* the worker answers its oldest request: every message listener runs
workerPostsResult ==
  /\ smWorker # 0
  /\ smQueue # <<>>
  /\ smCalls' = [c \in 1..Len(smCalls) |-> messageHandler(smCalls[c], "resolved", Head(smQueue))]
  /\ smQueue' = Tail(smQueue)
  /\ UNCHANGED <<smWorker, smCreated>>

workerPostsError ==
  /\ smWorker # 0
  /\ smQueue # <<>>
  /\ smCalls' = [c \in 1..Len(smCalls) |-> messageHandler(smCalls[c], "rejected", Head(smQueue))]
  /\ smQueue' = Tail(smQueue)
  /\ UNCHANGED <<smWorker, smCreated>>

\* the worker throws while it handles its oldest request: every error
\* listener runs
workerErrorEvent ==
  /\ smWorker # 0
  /\ smQueue # <<>>
  /\ smCalls' = [c \in 1..Len(smCalls) |-> errorHandler(smCalls[c], Head(smQueue))]
  /\ smQueue' = Tail(smQueue)
  /\ UNCHANGED <<smWorker, smCreated>>

\* the setTimeout callback of call c: cleanup() terminates whatever worker
\* the manager holds now, then the call is rejected with 'Simulation timeout'
managerTimeout(c) ==
  /\ c \in 1..Len(smCalls)
  /\ smCalls[c].timer = "armed"
  /\ smWorker' = 0
  /\ smQueue' = <<>>
  /\ smCalls' = [smCalls EXCEPT ![c] = [settle(@, "rejected", c) EXCEPT !.timer = "fired"]]
  /\ UNCHANGED smCreated


(***************************************************************************)
(* News route (part_012): GET with the module-level CACHE and its daily    *)
(* request budget.  NEWSAPI_KEY is set.  A handler runs without            *)
(* interruption up to its await of the upstream fetch.                     *)
(***************************************************************************)
MaxInFlight == 2   \* handlers waiting for the upstream at the same time
MaxExcess == 2     \* upstream requests followed beyond the daily budget
MaxDays == 2       \* calendar days

MAX_PER_DAY == 80

VARIABLES
  rtToday,      \* new Date().toISOString().slice(0, 10), as a day number
  rtCache,      \* CACHE: day and count
  rtInFlight,   \* handlers suspended at `await fetch(url, ...)`
  rtUpstream    \* upstream requests issued during the day rtToday

routeVars == <<rtToday, rtCache, rtInFlight, rtUpstream>>

RouteInit ==
  /\ rtToday = 1
  /\ rtCache = [day |-> 1, count |-> 0]
  /\ rtInFlight = 0
  /\ rtUpstream = 0

\* if (notSameDay(CACHE.day, today)) CACHE = { day: today, count: 0, ... }
rolledOver(cache, today) ==
  IF cache.day # today THEN [day |-> today, count |-> 0] ELSE cache

\* GET up to its first await: the cached answer, or the upstream fetch issued
GET(useCacheOnly) ==
  /\ rtInFlight < MaxInFlight
  /\ rtUpstream < MAX_PER_DAY + MaxExcess
  /\ LET cache == rolledOver(rtCache, rtToday)
     IN /\ rtCache' = cache
        /\ IF cache.count >= MAX_PER_DAY \/ useCacheOnly
             THEN UNCHANGED <<rtInFlight, rtUpstream>>
             ELSE /\ rtInFlight' = rtInFlight + 1
                  /\ rtUpstream' = rtUpstream + 1
  /\ UNCHANGED rtToday

\* the fetch and res.json() resolved: CACHE.count += 1
upstreamAnswered ==
  /\ rtInFlight > 0
  /\ rtInFlight' = rtInFlight - 1
  /\ rtCache' = [rtCache EXCEPT !.count = @ + 1]
  /\ UNCHANGED <<rtToday, rtUpstream>>

\* the fetch was rejected or aborted after 7 s, or res.json() threw: the
\* catch branch answers from the cache and leaves CACHE.count as it is
upstreamFailed ==
  /\ rtInFlight > 0
  /\ rtInFlight' = rtInFlight - 1
  /\ UNCHANGED <<rtToday, rtCache, rtUpstream>>

\* midnight (UTC): a new calendar day begins
midnight ==
  /\ rtToday < MaxDays
  /\ rtToday' = rtToday + 1
  /\ rtUpstream' = 0
  /\ UNCHANGED <<rtCache, rtInFlight>>


vars == <<lapVars, mcVars, perkVars, progVars, newsVars, engineVars, legacyVars, sortVars, qualifyingVars, normalVars, csvVars, managerVars, routeVars>>

\* each store is a module of its own: its operations leave the others alone
LapFrame == UNCHANGED <<mcVars, perkVars, progVars, newsVars, engineVars, legacyVars, sortVars, qualifyingVars, normalVars, csvVars, managerVars, routeVars>>
McFrame == UNCHANGED <<lapVars, perkVars, progVars, newsVars, engineVars, legacyVars, sortVars, qualifyingVars, normalVars, csvVars, managerVars, routeVars>>
PerkFrame == UNCHANGED <<lapVars, mcVars, progVars, newsVars, engineVars, legacyVars, sortVars, qualifyingVars, normalVars, csvVars, managerVars, routeVars>>
ProgFrame == UNCHANGED <<lapVars, mcVars, perkVars, newsVars, engineVars, legacyVars, sortVars, qualifyingVars, normalVars, csvVars, managerVars, routeVars>>
NewsFrame == UNCHANGED <<lapVars, mcVars, perkVars, progVars, engineVars, legacyVars, sortVars, qualifyingVars, normalVars, csvVars, managerVars, routeVars>>
EngineFrame == UNCHANGED <<lapVars, mcVars, perkVars, progVars, newsVars, legacyVars, sortVars, qualifyingVars, normalVars, csvVars, managerVars, routeVars>>
LegacyFrame == UNCHANGED <<lapVars, mcVars, perkVars, progVars, newsVars, engineVars, sortVars, qualifyingVars, normalVars, csvVars, managerVars, routeVars>>
SortFrame == UNCHANGED <<lapVars, mcVars, perkVars, progVars, newsVars, engineVars, legacyVars, qualifyingVars, normalVars, csvVars, managerVars, routeVars>>
QualifyingFrame == UNCHANGED <<lapVars, mcVars, perkVars, progVars, newsVars, engineVars, legacyVars, sortVars, normalVars, csvVars, managerVars, routeVars>>
NormalFrame == UNCHANGED <<lapVars, mcVars, perkVars, progVars, newsVars, engineVars, legacyVars, sortVars, qualifyingVars, csvVars, managerVars, routeVars>>
CsvFrame == UNCHANGED <<lapVars, mcVars, perkVars, progVars, newsVars, engineVars, legacyVars, sortVars, qualifyingVars, normalVars, managerVars, routeVars>>
ManagerFrame == UNCHANGED <<lapVars, mcVars, perkVars, progVars, newsVars, engineVars, legacyVars, sortVars, qualifyingVars, normalVars, csvVars, routeVars>>
RouteFrame == UNCHANGED <<lapVars, mcVars, perkVars, progVars, newsVars, engineVars, legacyVars, sortVars, qualifyingVars, normalVars, csvVars, managerVars>>

LapNext ==
  \/ \E l \in 1..MaxLapsInput : updateConfiguration(l) /\ LapFrame
  \/ \E d \in LapDrivers : toggleDriver(d) /\ LapFrame
  \/ resetLineup /\ LapFrame
  \/ resetHistory /\ LapFrame
  \/ clearCurrentRun /\ LapFrame
  \/ \E m \in {MsgCustom} : setStatusMessage(m) /\ LapFrame
  \/ \E ok \in BOOLEAN : runSimulation(ok) /\ LapFrame
  \/ cancelSimulation /\ LapFrame
  \/ EngineLap /\ LapFrame

McNext ==
  \/ \E d \in MCDrivers : mcToggleDriver(d) /\ McFrame
  \/ \E r \in {MIN_RUNS + 10, DEFAULT_RUNS} : mcSetContext(r) /\ McFrame
  \/ \E outcome \in StartOutcomes : mcRunSimulation(outcome) /\ McFrame
  \/ \E i \in 1..MaxWorkers, fresh \in {{}, MCDrivers}, outcome \in StartOutcomes :
       ErgastResolved(i, fresh, outcome) /\ McFrame
  \/ \E i \in 1..MaxWorkers, outcome \in StartOutcomes : ErgastRejected(i, outcome) /\ McFrame
  \/ mcCancelSimulation /\ McFrame
  \/ \E w \in 1..MaxWorkers : mcTimeout(w) /\ McFrame
  \/ \E w \in 1..MaxWorkers : onProgressMessage(w) /\ McFrame
  \/ \E w \in 1..MaxWorkers : onResultMessage(w) /\ McFrame
  \/ \E w \in 1..MaxWorkers : onErrorMessage(w) /\ McFrame
  \/ \E w \in 1..MaxWorkers : onWorkerError(w) /\ McFrame
  \/ mcReset /\ McFrame

PerkNext ==
  \/ startRun /\ PerkFrame
  \/ endRun /\ PerkFrame
  \/ resetRun /\ PerkFrame
  \/ resetAll /\ PerkFrame

ProgNext ==
  \/ Iterate /\ ProgFrame
  \/ PostResult /\ ProgFrame

NewsNext ==
  \/ AdvanceClock /\ NewsFrame
  \/ fetchNewsFactors /\ NewsFrame
  \/ FetchOk /\ NewsFrame
  \/ FetchFailed /\ NewsFrame

EngineNext ==
  \/ \E fs \in FactorChoices : startPrediction(fs) /\ EngineFrame
  \/ simulateOneRun /\ EngineFrame
  \/ finishPrediction /\ EngineFrame

LegacyNext ==
  \/ legacyRun /\ LegacyFrame
  \/ legacyPost /\ LegacyFrame

SortNext ==
  \/ sortResults /\ SortFrame

QualifyingNext ==
  \/ postWithQualifying /\ QualifyingFrame

NormalNext ==
  \/ randomNormal /\ NormalFrame
  \/ RandomGeneratorNormal /\ NormalFrame
  \/ normalBatchDrawU /\ NormalFrame
  \/ normalBatchDrawV /\ NormalFrame
  \/ normalRedraw /\ NormalFrame
  \/ reliabilityCheck /\ NormalFrame

CsvNext ==
  \/ loadDriversFromCSV /\ CsvFrame

ManagerNext ==
  \/ managerRunSimulation /\ ManagerFrame
  \/ workerPostsResult /\ ManagerFrame
  \/ workerPostsError /\ ManagerFrame
  \/ workerErrorEvent /\ ManagerFrame
  \/ \E c \in 1..MaxCalls : managerTimeout(c) /\ ManagerFrame

RouteNext ==
  \/ \E useCacheOnly \in BOOLEAN : GET(useCacheOnly) /\ RouteFrame
  \/ upstreamAnswered /\ RouteFrame
  \/ upstreamFailed /\ RouteFrame
  \/ midnight /\ RouteFrame

InitLap == LapInit /\ McInit /\ PerkInit /\ ProgInit0 /\ NewsInit /\ EngineInit0 /\ LegacyInit0 /\ SortInit0 /\ QualifyingInit0 /\ NormalInit0 /\ CsvInit0 /\ ManagerInit /\ RouteInit
InitMC == McInit /\ LapFresh /\ PerkInit /\ ProgInit0 /\ NewsInit /\ EngineInit0 /\ LegacyInit0 /\ SortInit0 /\ QualifyingInit0 /\ NormalInit0 /\ CsvInit0 /\ ManagerInit /\ RouteInit
InitPerk == PerkInit /\ LapFresh /\ McInit /\ ProgInit0 /\ NewsInit /\ EngineInit0 /\ LegacyInit0 /\ SortInit0 /\ QualifyingInit0 /\ NormalInit0 /\ CsvInit0 /\ ManagerInit /\ RouteInit
InitProgress == ProgInit /\ LapFresh /\ McInit /\ PerkInit /\ NewsInit /\ EngineInit0 /\ LegacyInit0 /\ SortInit0 /\ QualifyingInit0 /\ NormalInit0 /\ CsvInit0 /\ ManagerInit /\ RouteInit
InitNews == NewsInit /\ LapFresh /\ McInit /\ PerkInit /\ ProgInit0 /\ EngineInit0 /\ LegacyInit0 /\ SortInit0 /\ QualifyingInit0 /\ NormalInit0 /\ CsvInit0 /\ ManagerInit /\ RouteInit

InitEngine == EngineInit /\ LapFresh /\ McInit /\ PerkInit /\ ProgInit0 /\ NewsInit /\ LegacyInit0 /\ SortInit0 /\ QualifyingInit0 /\ NormalInit0 /\ CsvInit0 /\ ManagerInit /\ RouteInit
InitLegacy == LegacyInit /\ LapFresh /\ McInit /\ PerkInit /\ ProgInit0 /\ NewsInit /\ EngineInit0 /\ SortInit0 /\ QualifyingInit0 /\ NormalInit0 /\ CsvInit0 /\ ManagerInit /\ RouteInit
InitSort == SortInit /\ LapFresh /\ McInit /\ PerkInit /\ ProgInit0 /\ NewsInit /\ EngineInit0 /\ LegacyInit0 /\ QualifyingInit0 /\ NormalInit0 /\ CsvInit0 /\ ManagerInit /\ RouteInit
InitQualifying == QualifyingInit /\ McInit /\ LapFresh /\ PerkInit /\ ProgInit0 /\ NewsInit /\ EngineInit0 /\ LegacyInit0 /\ SortInit0 /\ NormalInit0 /\ CsvInit0 /\ ManagerInit /\ RouteInit
InitNormal == NormalInit /\ McInit /\ LapFresh /\ PerkInit /\ ProgInit0 /\ NewsInit /\ EngineInit0 /\ LegacyInit0 /\ SortInit0 /\ QualifyingInit0 /\ CsvInit0 /\ ManagerInit /\ RouteInit
InitCsv == CsvInit /\ McInit /\ LapFresh /\ PerkInit /\ ProgInit0 /\ NewsInit /\ EngineInit0 /\ LegacyInit0 /\ SortInit0 /\ QualifyingInit0 /\ NormalInit0 /\ ManagerInit /\ RouteInit
InitManager == ManagerInit /\ McInit /\ LapFresh /\ PerkInit /\ ProgInit0 /\ NewsInit /\ EngineInit0 /\ LegacyInit0 /\ SortInit0 /\ QualifyingInit0 /\ NormalInit0 /\ CsvInit0 /\ RouteInit
InitRoute == RouteInit /\ McInit /\ LapFresh /\ PerkInit /\ ProgInit0 /\ NewsInit /\ EngineInit0 /\ LegacyInit0 /\ SortInit0 /\ QualifyingInit0 /\ NormalInit0 /\ CsvInit0 /\ ManagerInit

SpecLap == InitLap /\ [][LapNext]_vars

SpecMC == InitMC /\ [][McNext]_vars

SpecPerk == InitPerk /\ [][PerkNext]_vars

SpecProgress == InitProgress /\ [][ProgNext]_vars

SpecNews == InitNews /\ [][NewsNext]_vars

SpecEngine == InitEngine /\ [][EngineNext]_vars

SpecLegacy == InitLegacy /\ [][LegacyNext]_vars

SpecSort == InitSort /\ [][SortNext]_vars

SpecQualifying == InitQualifying /\ [][QualifyingNext]_vars

SpecNormal == InitNormal /\ [][NormalNext]_vars

SpecCsv == InitCsv /\ [][CsvNext]_vars

SpecManager == InitManager /\ [][ManagerNext]_vars

SpecRoute == InitRoute /\ [][RouteNext]_vars

(***************************************************************************)
(* Properties                                                              *)
(***************************************************************************)

\* The State type of the Monte Carlo store has no run status and no run
\* message; the one message it can show is variationsError.
McUserMessage == variationsError

\* C1: starting a simulation while the orchestrator is running is a no-op:
\* no second executor is created and the in-flight run is left unchanged.
C1_ReentryIsNoOp ==
  [][(mcIsRunning /\ mcOp' = "runSimulation")
       => (workers' = workers /\ workerRef' = workerRef /\ workerTimeout' = workerTimeout
           /\ mcIsRunning' /\ mcProgress' = mcProgress)]_vars

\* C2: a user-issued cancel while a simulation is in flight stops the
\* simulation and releases its executor: once cancelSimulation has run, no
\* worker is still simulating and the store is no longer running.
C2_CancelStopsSimulation ==
  [][(mcIsRunning /\ mcOp' = "cancelSimulation")
       => /\ \A w \in 1..Len(workers') : ~(workers'[w].alive /\ workers'[w].posted)
          /\ workerRef' = 0
          /\ ~mcIsRunning']_vars

\* C3: every run that ends is appended to the history exactly once; in
\* particular cancelling a run in flight makes the history grow by one entry.
C3_CancelAppendsHistory ==
  [][(mcIsRunning /\ mcOp' = "cancelSimulation") => Len(mcHistory') = Len(mcHistory) + 1]_vars

\* C4: when a simulation exceeds its wall-clock budget the executor is
\* terminated and the run is recorded as failed with a diagnostic message.
C4_TimeoutRecordsFailure ==
  mcOp = "timeout" => (~mcIsRunning /\ McUserMessage # <<>>)

\* C5: no run history ever holds more than HISTORY_LIMIT = 10 entries.
C5_HistoryBounded ==
  /\ Len(history) <= HISTORY_LIMIT
  /\ Len(mcHistory) <= MC_HISTORY_LIMIT
  /\ Len(pkHistory) <= HISTORY_LIMIT

ResultIffCompleted(run) == (run.result # NULL) <=> (run.status = "completed")

\* C7: for every SimulationRun record (the current run and every history
\* entry), result is populated if and only if the status is completed.
C7_ResultIffCompleted ==
  /\ currentRun # NoRun => ResultIffCompleted(currentRun)
  /\ \A i \in 1..Len(history) : ResultIffCompleted(history[i])

\* C7 witness: this session completed a run (result stored) after having
\* cancelled another one (no result), both in the history.
C7_Witness ==
  /\ currentRun # NoRun
  /\ currentRun.id > HISTORY_LIMIT
  /\ currentRun.status = "completed"
  /\ currentRun.result # NULL
  /\ \E i \in 1..Len(history) :
       /\ history[i].id > HISTORY_LIMIT
       /\ history[i].status = "cancelled"
       /\ history[i].result = NULL

\* C8: the progress values observable on the orchestrator lie in 0..100 and
\* never decrease from one observed value to the next.
C8_ProgressMonotonic ==
  [][mcProgress' # NoProgress
       => (mcProgress' \in 0..100 /\ (mcProgress # NoProgress => mcProgress' >= mcProgress))]_vars

\* C9: every simulation that completes has emitted a final progress tick of
\* 100, for every admissible number of runs.
C9_FinalTickIs100 ==
  pgDone => (pgPosted # <<>> /\ pgPosted[Len(pgPosted)] = 100)

\* C10: a refresh requested less than 30 s after the previous request yields
\* a user-visible error and makes no network call.
C10_CooldownBetweenRequests ==
  [][(nwOp' = "fetchNewsFactors" /\ lastRequestAt # 0 /\ (now - lastRequestAt) < COOLDOWN_MS)
       => (variationsError' # <<>> /\ fetches' = fetches)]_vars

\* C11: a submission with fewer than two active drivers never starts the
\* engine and surfaces a remediation message to the user.
C11_TooFewDriversReported ==
  [][(mcOp' = "runSimulation" /\ mcPending' = mcPending
        /\ Cardinality(ActiveOf(mcDrivers)) < 2)
       => (workers' = workers /\ ~mcIsRunning' /\ McUserMessage' # <<>>)]_vars

\* C12: in every simulated run the finishers occupy positions 1..k and every
\* DNF driver is given the sentinel position |active| + 1.
C12_DnfSentinelPosition ==
  (egPhase # "idle" /\ egRun >= 1) =>
    LET k == Cardinality({i \in DOMAIN egSample : egSample[i].didFinish})
    IN \A i \in DOMAIN egSample :
         IF egSample[i].didFinish
           THEN egSample[i].position \in 1..k
           ELSE egSample[i].position = Len(egActive) + 1

RECURSIVE SumSeq(_)
SumSeq(q) == IF q = <<>> THEN 0 ELSE Head(q) + SumSeq(Tail(q))

\* C13: the win counts of the drivers sum to the number of runs, whatever
\* the DNF rates.
C13_WinsSumToRuns ==
  /\ (egPhase = "done" /\ egSummary.runs > 0) =>
        SumSeq([i \in DOMAIN egSummary.results |-> egSummary.results[i].wins])
          = egSummary.runs
  /\ lgPosted # <<>> => SumSeq(lgPosted[1].wins) = lgPosted[1].runs

PodiumsOf(results) == SumSeq([i \in DOMAIN results |-> results[i].podiums])

\* C14 as stated: the podium counts of every accepted simulation sum to
\* three per run.
C14_PodiumsSumToThree ==
  (egPhase = "done" /\ egSummary.runs > 0) =>
    PodiumsOf(egSummary.results) = 3 * egSummary.runs

\* C14: the podium counts of every accepted simulation sum to
\* min(3, |active|) per run, during the loop and in the summary.
C14_PodiumsSumToMinThree ==
  /\ egPhase = "running" =>
        PodiumsOf(egStats) = Min(3, Len(egActive)) * egRun
  /\ (egPhase = "done" /\ egSummary.runs > 0) =>
        PodiumsOf(egSummary.results) = Min(3, Len(egActive)) * egSummary.runs

C14_Witness ==
  /\ egPhase = "done"
  /\ Len(egActive) = 2
  /\ egSummary.runs = EngineRuns
  /\ PodiumsOf(egSummary.results) = 2 * EngineRuns

C16_ReliabilityDrawnBeforeNormals ==
  (egPhase # "idle" /\ egRun >= 1) =>
    egDraws = [i \in 1..Len(egActive) |-> <<"reliability", i>>]
                \o [i \in 1..Len(egActive) |-> <<"normal", i>>]

\* C17: in summary.results an earlier entry never has a winProbability more
\* than 0.001 below a later one, and of two entries within 0.001 of each
\* other the earlier has the lower or equal averageFinish.
C17_ResultsOrdered ==
  \A i, j \in DOMAIN srResults :
    i < j =>
      /\ srResults[i].wins * 1000 >= srResults[j].wins * 1000 - srRuns
      /\ ~winsDiffer(srResults[i], srResults[j])
           => srResults[i].totalFinish <= srResults[j].totalFinish

\* C18: under a context that does not amplify unreliability, a driver with
\* dnfRate = 0 is never sampled as a DNF.
C18_ZeroDnfRateNeverDnfs ==
  (egPhase # "idle" /\ reliabilityAmplifier(egContext) = 100) =>
    \A i \in DOMAIN egStats :
      egActive[i].dnfRate = 0 => egStats[i].dnfs = 0

\* the row of driver id in summary.results
RowOf(results, id) == results[CHOOSE i \in DOMAIN results : results[i].id = id]

\* C19: an enabled reliability factor of magnitude -1 on a driver does not
\* lower the dnfRate the engine observes for that driver (the claim: it
\* raises it), and on the same seed the driver is sampled as a DNF at least
\* as often as in the baseline.
C19_NegativeReliabilityRaisesDnf ==
  (egCall = 2 /\ egFactors = ReliabilityFactorOn(DriverCodes[1]) /\ Len(egActive) >= 2) =>
    /\ egActive[1].dnfRate >= egDrivers[1].dnfRate
    /\ (egPhase = "done" /\ Len(egContext.seed) = 1) =>
          RowOf(egSummary.results, DriverCodes[1]).dnfs
            >= RowOf(egFirst.results, DriverCodes[1]).dnfs

\* C20: an enabled pace factor of magnitude +1 on one driver reaches the
\* engine (the drivers it receives differ from the baseline's) and, on the
\* same seed, strictly lowers that driver's averageFinish whenever the
\* baseline left room above first place.
C20_PaceFactorLowersAverageFinish ==
  (egCall = 2 /\ egFactors = PaceFactorOn(DriverCodes[1]) /\ Len(egActive) >= 2) =>
    /\ egActive # effectiveDrivers(egDrivers, <<>>)
    /\ (/\ egPhase = "done"
        /\ Len(egContext.seed) = 1
        /\ RowOf(egFirst.results, DriverCodes[1]).totalFinish > egFirst.runs) =>
          RowOf(egSummary.results, DriverCodes[1]).totalFinish
            < RowOf(egFirst.results, DriverCodes[1]).totalFinish

\* C21: for every enabled qualifying factor, the grid position the engine
\* observes for the matched driver is max(1, gridPosition - round(2 * magnitude)).
C21_QualifyingGridPosition ==
  qlPosted # <<>> =>
    qlPosted[2].gridPosition
      = Max(1, qlDrivers[2].gridPosition - MathRound(2 * qlFactor[1].magnitude, 4))

\* C22: no uniform variate equal to 0.0 is passed to log while a normal
\* variate is generated, in any of the generators.
C22_NoZeroPassedToLog == gnLogArg # <<>> => gnLogArg # Zero32

\* C28: runPredictionOptimized terminates: the redraw loops of
\* OptimizedRandom.normal always exit, so a loop iteration never finds the
\* generator in a state whose next draw is zero and leaves the state as it is.
C28_RedrawLoopsExit ==
  gnPc \in {"normal_u", "normal_v"} =>
    ~(OptimizedNext(orSeed) = Zero32 /\ OptimizedNext(orSeed) = orSeed)

\* C23: parsing a CSV in which a data row has an empty driver_name fails
\* with an error that reports that row's 1-based index in the input,
\* whatever blank lines the input contains.
C23_EmptyNameRowReported ==
  \A h \in 1..Len(csvText), r \in 1..Len(csvText) :
    ( /\ csvOutcome # <<>>
      /\ h < r
      /\ csvText[h] = HeaderLine
      /\ \A i \in 1..(h - 1) : csvText[i] = BlankLine
      /\ csvText[r] = UnnamedRow
      /\ \A i \in (h + 1)..(r - 1) : csvText[i] # UnnamedRow )
    => /\ csvOutcome[1].error = "Nome do piloto vazio na linha"
       /\ csvOutcome[1].linha = r

\* C24: every runSimulation call of the Monte Carlo store that sets isRunning
\* to true is eventually followed by isRunning becoming false, however the
\* run ends: while isRunning is true, a timeout timer is still armed or a
\* worker can still report, so that something is left to end the run.
C24_RunningRunCanEnd ==
  mcIsRunning => \E w \in 1..Len(workers) : workers[w].timer = "armed" \/ Listening(w)

\* C25: after cancelSimulation returns, no worker and no timeout timer created
\* by an earlier runSimulation call is still alive, so that none can change
\* the store later, even when runSimulation calls overlapped.
C25_CancelLeavesNothingAlive ==
  mcOp = "cancelSimulation" =>
    \A w \in 1..Len(workers) : ~workers[w].alive /\ workers[w].timer # "armed"

\* C26: in the lap-based store isRunning is true only while an abort
\* controller for the in-flight run exists, in every reachable state
\* including one restored from persisted storage.
C26_RunningHasController == isRunning => abortController # NoController

\* C27: when F1SimulationManager.runSimulation is called again before an
\* earlier call has settled, each call's promise settles with the result,
\* error or timeout of its own request, never with that of another request.
C27_SettlesWithOwnRequest ==
  \A c \in 1..Len(smCalls) :
    smCalls[c].status # "pending" => smCalls[c].settledWith = c

\* C29: running a simulation does not change the user's driver selection:
\* the set of active drivers in the Monte Carlo store after runSimulation is
\* the one the call started with (for a call that was suspended at the
\* Ergast requests, the selection it read when it was made).
C29_SelectionUnchanged ==
  [][mcOp' = "runSimulation" =>
       IF Len(mcPending') < Len(mcPending)
         THEN \E i \in 1..Len(mcPending) : ActiveOf(mcDrivers') = ActiveOf(mcPending[i])
         ELSE ActiveOf(mcDrivers') = ActiveOf(mcDrivers)]_vars

\* C30: the news route issues at most MAX_PER_DAY upstream NewsAPI requests
\* per calendar day, also when requests are handled concurrently and when
\* upstream requests fail.
C30_UpstreamBudget == rtUpstream <= MAX_PER_DAY

====
